---- MODULE Spec2Model ----
(***************************************************************************)
(* A model of the entity-component-system registry of src/src/pixelz.cpp:  *)
(* EntityManager, ComponentArray<T>, ComponentManager, SystemManager and   *)
(* the Coordinator facade that sequences them.  One action per public      *)
(* Coordinator method; the managers' methods are operators on their state. *)
(*                                                                         *)
(* Conventions.                                                            *)
(*  - A std::unordered_map is a function whose DOMAIN is its key set.      *)
(*    operator[] inserts a value-initialised entry for a missing key       *)
(*    (MapTouch), insert() keeps an existing entry (MapInsert).            *)
(*  - A Signature (std::bitset<MAX_COMPONENTS>) is the set of its set bit  *)
(*    positions.                                                           *)
(*  - size_ (size_t) and living_entity_count_ (uint32_t) are held as the   *)
(*    representative of their residue class nearest to zero, so -1 stands  *)
(*    for the wrapped value 2^w - 1; ++ and -- are exact on it.            *)
(*  - ub records that the last call executed undefined behaviour (an       *)
(*    out-of-bounds array access, front()/pop() on an empty queue, a call  *)
(*    through a null array pointer).  Values read by such an access are    *)
(*    drawn nondeterministically; no further call is modelled after it.    *)
(***************************************************************************)
EXTENDS Integers, Sequences, FiniteSets, TLC

\* ---------------------------------------------------------------- bounds
\* Entity capacity (src/src/pixelz.cpp:41 sets 5000; scaled for checking).
MAX_ENTITIES == 3
\* Component values are 1..MaxValue; 0 is the value-initialised component.
MaxValue == 2
\* Spec explores behaviours of at most MaxCalls Coordinator calls,
\* SpecSystems of at most MaxSystemsCalls, SpecStorage of at most
\* MaxStorageCalls, SpecLifecycle of at most MaxLifecycleCalls.
MaxCalls == 5
MaxSystemsCalls == 5
MaxStorageCalls == 6
MaxLifecycleCalls == 7
\* SpecTypes explores behaviours of at most MaxTypesCalls calls: enough to
\* register one component type more than MAX_COMPONENTS and use it.
MaxTypesCalls == 35
\* SpecMain explores behaviours of at most MaxMainCalls calls.
MaxMainCalls == 7
\* In SpecPool the pool of available ids holds at most MAX_ENTITIES + MaxPoolExtra
\* ids (destroy_entity of an id that is not live adds one).
MaxPoolExtra == 1

\* ------------------------------------------------------ program constants
MAX_COMPONENTS == 32
ComponentTypeWidth == 256

Entity == 0 .. (MAX_ENTITIES - 1)
Index == 0 .. (MAX_ENTITIES - 1)
Value == 1 .. MaxValue
AnyValue == 0 .. MaxValue
TypeNames == {"Gravity", "Pixel"}
SystemNames == {"PhysicsSystem", "RenderSystem"}
SignatureInputs == SUBSET {0, 1}
\* A null std::shared_ptr<IComponentArray>.
NullPtr == [null |-> TRUE]

VARIABLES
    available_entities_,   \* EntityManager: std::queue<Entity>
    signatures_,           \* EntityManager: std::array<Signature, MAX_ENTITIES>
    living_entity_count_,  \* EntityManager: uint32_t
    component_types_,      \* ComponentManager: type name -> ComponentType
    component_arrays_,     \* ComponentManager: type name -> ComponentArray | NullPtr
    next_component_type,   \* ComponentManager: uint8_t
    system_signatures_,    \* SystemManager::signatures_: system name -> Signature
    systems_,              \* SystemManager: system name -> System::entities_
    op,                    \* the last Coordinator call and its arguments
    ret,                   \* what that call returned (or threw)
    ub,                    \* that call executed undefined behaviour
    calls,                 \* the number of Coordinator calls made so far
    writes,                \* the managers that call wrote to, in the order it did
    life                   \* history: each id is "fresh", "live" (returned by create_entity
                           \* and not destroyed since) or "destroyed" (while live)

vars == <<available_entities_, signatures_, living_entity_count_, component_types_,
          component_arrays_, next_component_type, system_signatures_, systems_,
          op, ret, ub, calls, writes, life>>

\* ------------------------------------------------------- std::unordered_map
EmptyMap == [k \in {} |-> 0]

MapPut(m, k, v) == [x \in (DOMAIN m) \cup {k} |-> IF x = k THEN v ELSE m[x]]

MapErase(m, k) == [x \in (DOMAIN m) \ {k} |-> m[x]]

\* m after m[k] was evaluated: a missing key is inserted value-initialised (d).
MapTouch(m, k, d) == IF k \in DOMAIN m THEN m ELSE MapPut(m, k, d)

\* m after m.insert({k, v}): an existing entry is kept.
MapInsert(m, k, v) == IF k \in DOMAIN m THEN m ELSE MapPut(m, k, v)

\* --------------------------------------------------------------- the calls
Call(name, e, t, v, s, sig) ==
    [name |-> name, entity |-> e, type |-> t, value |-> v, system |-> s, signature |-> sig]

Returned(kind, val) == [kind |-> kind, val |-> val]

Void == Returned("void", 0)

\* ------------------------------------------------------------ EntityManager
\* The constructor's loop: ids 0 .. MAX_ENTITIES-1 pushed in order.
EntityManager_available == [i \in 1 .. MAX_ENTITIES |-> i - 1]

\* ----------------------------------------------------------- ComponentArray
\* std::make_shared<ComponentArray<T>>() value-initialises the object.
NewComponentArray ==
    [component_array_ |-> [i \in Index |-> 0],
     entity_to_index_map_ |-> EmptyMap,
     index_to_entity_map_ |-> EmptyMap,
     size_ |-> 0]

\* insert_data writes component_array_[size_]: out of bounds unless size_ is an index.
insert_data_ub(a) == a.size_ \notin Index

insert_data(a, entity, component) ==
    LET new_index == a.size_
    IN  [component_array_ |->
             IF new_index \in Index
             THEN [a.component_array_ EXCEPT ![new_index] = component]
             ELSE a.component_array_,
         entity_to_index_map_ |-> MapPut(a.entity_to_index_map_, entity, new_index),
         index_to_entity_map_ |-> MapPut(a.index_to_entity_map_, new_index, entity),
         size_ |-> a.size_ + 1]

\* remove_data reads component_array_[size_ - 1]: out of bounds when size_ = 0.
remove_data_ub(a) == (a.size_ - 1) \notin Index

\* garbage is the value an out-of-bounds read of the last element yields.
remove_data(a, entity, garbage) ==
    LET e2i1 == MapTouch(a.entity_to_index_map_, entity, 0)
        indexOfRemovedEntity == e2i1[entity]
        indexOfLastElement == a.size_ - 1
        last == IF indexOfLastElement \in Index
                THEN a.component_array_[indexOfLastElement]
                ELSE garbage
        arr == [a.component_array_ EXCEPT ![indexOfRemovedEntity] = last]
        i2e1 == MapTouch(a.index_to_entity_map_, indexOfLastElement, 0)
        entityOfLastElement == i2e1[indexOfLastElement]
        e2i2 == MapPut(e2i1, entityOfLastElement, indexOfRemovedEntity)
        i2e2 == MapPut(i2e1, indexOfRemovedEntity, entityOfLastElement)
    IN  [component_array_ |-> arr,
         entity_to_index_map_ |-> MapErase(e2i2, entity),
         index_to_entity_map_ |-> MapErase(i2e2, indexOfLastElement),
         size_ |-> a.size_ - 1]

\* The array after get_data(entity): operator[] may insert entity -> 0.
get_data_array(a, entity) ==
    [a EXCEPT !.entity_to_index_map_ = MapTouch(a.entity_to_index_map_, entity, 0)]

\* The component get_data(entity) refers to.
get_data(a, entity) ==
    a.component_array_[MapTouch(a.entity_to_index_map_, entity, 0)[entity]]

entity_destroyed_ub(a, entity) ==
    entity \in DOMAIN a.entity_to_index_map_ /\ remove_data_ub(a)

entity_destroyed(a, entity, garbage) ==
    IF entity \in DOMAIN a.entity_to_index_map_
    THEN remove_data(a, entity, garbage)
    ELSE a

\* ------------------------------------------------------------ SystemManager
\* signatures_ after entity_signature_changed: signatures_[type] is evaluated
\* for every registered system, inserting an empty Signature where none is set.
entity_signature_changed_signatures(sigs, systems) ==
    [s \in (DOMAIN sigs) \cup (DOMAIN systems) |-> IF s \in DOMAIN sigs THEN sigs[s] ELSE {}]

\* (entity_signature & system_signature) == system_signature
Matches(entity_signature, system_signature) ==
    (entity_signature \cap system_signature) = system_signature

\* entity_signature_changed without its else branch: a matching entity is
\* inserted, one that no longer matches is not erased.
entity_signature_changed_no_erase(systems, sigs, entity, entity_signature) ==
    LET sigs1 == entity_signature_changed_signatures(sigs, systems)
    IN  [s \in DOMAIN systems |->
            IF Matches(entity_signature, sigs1[s])
            THEN systems[s] \cup {entity}
            ELSE systems[s]]

\* systems_ after entity_signature_changed(entity, entity_signature).
entity_signature_changed(systems, sigs, entity, entity_signature) ==
    LET sigs1 == entity_signature_changed_signatures(sigs, systems)
    IN  [s \in DOMAIN systems |->
            IF Matches(entity_signature, sigs1[s])
            THEN systems[s] \cup {entity}
            ELSE systems[s] \ {entity}]

\* systems_ after SystemManager::entity_destroyed(entity).
SystemManager_entity_destroyed(systems, entity) ==
    [s \in DOMAIN systems |-> systems[s] \ {entity}]

\* -------------------------------------------------------------- Coordinator
Init ==
    /\ available_entities_ = EntityManager_available
    /\ signatures_ = [e \in Entity |-> {}]
    /\ living_entity_count_ = 0
    /\ component_types_ = EmptyMap
    /\ component_arrays_ = EmptyMap
    /\ next_component_type = 0
    /\ system_signatures_ = EmptyMap
    /\ systems_ = EmptyMap
    /\ op = Call("init", -1, "", 0, "", {})
    /\ ret = Void
    /\ ub = FALSE
    /\ calls = 0
    /\ writes = <<>>
    /\ life = [e \in Entity |-> "fresh"]

\* The order of the statements of add_component and remove_component: the
\* component array, then the entity's signature, then the systems' sets.
MutationOrder == <<"ComponentManager", "EntityManager", "SystemManager">>

\* The order of the statements of destroy_entity: the entity (its signature and
\* the pool), then the component arrays, then the systems' sets.
DestroyOrder == <<"EntityManager", "ComponentManager", "SystemManager">>

\* A call is made while the behaviour is defined.
Callable == ~ub

\* One more call, in a behaviour of at most n calls.
Counted(n) ==
    /\ calls < n
    /\ calls' = calls + 1

\* Only create_entity and destroy_entity change which ids are live.
SameLive == life' = life

\* Ids an undefined front() of the empty queue may yield: any stored id, or a
\* value outside the entity range (MAX_ENTITIES stands for all of those).
GarbageEntity == 0 .. MAX_ENTITIES

create_entity ==
    /\ Callable
    /\ op' = Call("create_entity", -1, "", 0, "", {})
    /\ writes' = <<"EntityManager">>
    /\ living_entity_count_' = living_entity_count_ + 1
    /\ IF available_entities_ # <<>>
       THEN /\ ret' = Returned("entity", Head(available_entities_))
            /\ available_entities_' = Tail(available_entities_)
            /\ ub' = FALSE
       ELSE /\ \E id \in GarbageEntity : ret' = Returned("entity", id)
            /\ available_entities_' = <<>>
            /\ ub' = TRUE
    /\ life' = [e \in Entity |-> IF e = ret'.val THEN "live" ELSE life[e]]
    /\ UNCHANGED <<signatures_, component_types_, component_arrays_, next_component_type,
                   system_signatures_, systems_>>

\* The registered arrays in which entity_destroyed(entity) reads out of bounds.
DestroyUbArrays(entity) ==
    {t \in DOMAIN component_arrays_ : entity_destroyed_ub(component_arrays_[t], entity)}

\* destroy_entity pushing the released id on the front of the pool.
destroy_entity_push_front(entity) ==
    /\ Callable
    /\ op' = Call("destroy_entity", entity, "", 0, "", {})
    /\ writes' = DestroyOrder
    /\ ret' = Void
    /\ signatures_' = [signatures_ EXCEPT ![entity] = {}]
    /\ available_entities_' = <<entity>> \o available_entities_
    /\ living_entity_count_' = living_entity_count_ - 1
    /\ \E garbage \in (IF DestroyUbArrays(entity) = {} THEN {0} ELSE AnyValue) :
           component_arrays_' =
               [t \in DOMAIN component_arrays_ |->
                   entity_destroyed(component_arrays_[t], entity, garbage)]
    /\ ub' = (DestroyUbArrays(entity) # {})
    /\ systems_' = SystemManager_entity_destroyed(systems_, entity)
    /\ life' = [life EXCEPT ![entity] = IF @ = "live" THEN "destroyed" ELSE @]
    /\ UNCHANGED <<component_types_, next_component_type, system_signatures_>>

destroy_entity(entity) ==
    /\ Callable
    /\ op' = Call("destroy_entity", entity, "", 0, "", {})
    /\ writes' = DestroyOrder
    /\ ret' = Void
    /\ signatures_' = [signatures_ EXCEPT ![entity] = {}]
    /\ available_entities_' = Append(available_entities_, entity)
    /\ living_entity_count_' = living_entity_count_ - 1
    /\ \E garbage \in (IF DestroyUbArrays(entity) = {} THEN {0} ELSE AnyValue) :
           component_arrays_' =
               [t \in DOMAIN component_arrays_ |->
                   entity_destroyed(component_arrays_[t], entity, garbage)]
    /\ ub' = (DestroyUbArrays(entity) # {})
    /\ systems_' = SystemManager_entity_destroyed(systems_, entity)
    /\ life' = [life EXCEPT ![entity] = IF @ = "live" THEN "destroyed" ELSE @]
    /\ UNCHANGED <<component_types_, next_component_type, system_signatures_>>

register_component(T) ==
    /\ Callable
    /\ SameLive
    /\ op' = Call("register_component", -1, T, 0, "", {})
    /\ writes' = <<"ComponentManager">>
    /\ ret' = Void
    /\ component_types_' = MapInsert(component_types_, T, next_component_type)
    /\ component_arrays_' = MapInsert(component_arrays_, T, NewComponentArray)
    /\ next_component_type' = (next_component_type + 1) % ComponentTypeWidth
    /\ ub' = FALSE
    /\ UNCHANGED <<available_entities_, signatures_, living_entity_count_,
                   system_signatures_, systems_>>

\* get_component_array<T>() finds no array: operator[] inserts a null pointer and
\* the caller calls a member function through it.
NullArrayCall(name, entity, T, component) ==
    /\ T \notin DOMAIN component_arrays_
    /\ op' = Call(name, entity, T, component, "", {})
    /\ writes' = <<"ComponentManager">>
    /\ ret' = Returned("undefined", 0)
    /\ component_arrays_' = MapPut(component_arrays_, T, NullPtr)
    /\ ub' = TRUE
    /\ UNCHANGED <<available_entities_, signatures_, living_entity_count_, component_types_,
                   next_component_type, system_signatures_, systems_>>

\* The tail shared by add_component and remove_component: the signature bit of
\* T's type is set to bit, stored, and the systems are notified.  std::bitset::set
\* throws std::out_of_range for a position >= MAX_COMPONENTS.
SetBitAndNotify(entity, T, bit) ==
    LET types == MapTouch(component_types_, T, 0)
        type == types[T]
        signature == IF bit THEN signatures_[entity] \cup {type}
                     ELSE signatures_[entity] \ {type}
    IN  /\ component_types_' = types
        /\ IF type >= MAX_COMPONENTS
           THEN /\ ret' = Returned("throw", 0)
                /\ writes' = <<"ComponentManager">>
                /\ UNCHANGED <<signatures_, system_signatures_, systems_>>
           ELSE /\ ret' = Void
                /\ writes' = MutationOrder
                /\ signatures_' = [signatures_ EXCEPT ![entity] = signature]
                /\ system_signatures_' =
                       entity_signature_changed_signatures(system_signatures_, systems_)
                /\ systems_' =
                       entity_signature_changed(systems_, system_signatures_, entity, signature)

add_component(entity, T, component) ==
    /\ Callable
    /\ SameLive
    /\ \/ NullArrayCall("add_component", entity, T, component)
       \/ /\ T \in DOMAIN component_arrays_
          /\ op' = Call("add_component", entity, T, component, "", {})
          /\ component_arrays_' =
                 [component_arrays_ EXCEPT
                     ![T] = insert_data(component_arrays_[T], entity, component)]
          /\ ub' = insert_data_ub(component_arrays_[T])
          /\ SetBitAndNotify(entity, T, TRUE)
          /\ UNCHANGED <<available_entities_, living_entity_count_, next_component_type>>

\* ComponentManager::remove_component names the array's method RemoveData; the
\* array's only removal method is remove_data, which is what is modelled.
remove_component(entity, T) ==
    /\ Callable
    /\ SameLive
    /\ \/ NullArrayCall("remove_component", entity, T, 0)
       \/ /\ T \in DOMAIN component_arrays_
          /\ op' = Call("remove_component", entity, T, 0, "", {})
          /\ \E garbage \in (IF remove_data_ub(component_arrays_[T]) THEN AnyValue ELSE {0}) :
                 component_arrays_' =
                     [component_arrays_ EXCEPT
                         ![T] = remove_data(component_arrays_[T], entity, garbage)]
          /\ ub' = remove_data_ub(component_arrays_[T])
          /\ SetBitAndNotify(entity, T, FALSE)
          /\ UNCHANGED <<available_entities_, living_entity_count_, next_component_type>>

get_component(entity, T) ==
    /\ Callable
    /\ SameLive
    /\ \/ NullArrayCall("get_component", entity, T, 0)
       \/ /\ T \in DOMAIN component_arrays_
          /\ op' = Call("get_component", entity, T, 0, "", {})
          /\ writes' = <<"ComponentManager">>
          /\ ret' = Returned("component", get_data(component_arrays_[T], entity))
          /\ component_arrays_' =
                 [component_arrays_ EXCEPT ![T] = get_data_array(component_arrays_[T], entity)]
          /\ ub' = FALSE
          /\ UNCHANGED <<available_entities_, signatures_, living_entity_count_,
                         component_types_, next_component_type, system_signatures_, systems_>>

get_component_type(T) ==
    /\ Callable
    /\ SameLive
    /\ op' = Call("get_component_type", -1, T, 0, "", {})
    /\ writes' = <<"ComponentManager">>
    /\ component_types_' = MapTouch(component_types_, T, 0)
    /\ ret' = Returned("type", component_types_'[T])
    /\ ub' = FALSE
    /\ UNCHANGED <<available_entities_, signatures_, living_entity_count_, component_arrays_,
                   next_component_type, system_signatures_, systems_>>

\* The handle returned is to a fresh System; it is the one the manager tracks
\* (val = 1) only if insert() stored it.
register_system(S) ==
    /\ Callable
    /\ SameLive
    /\ op' = Call("register_system", -1, "", 0, S, {})
    /\ writes' = <<"SystemManager">>
    /\ ret' = Returned("handle", IF S \in DOMAIN systems_ THEN 0 ELSE 1)
    /\ systems_' = MapInsert(systems_, S, {})
    /\ ub' = FALSE
    /\ UNCHANGED <<available_entities_, signatures_, living_entity_count_, component_types_,
                   component_arrays_, next_component_type, system_signatures_>>

\* set_signature followed by a re-sync of S's entity set against the signatures of
\* all entities: the retroactive behaviour the code does not have.
set_system_signature_resync(S, signature) ==
    /\ Callable
    /\ SameLive
    /\ op' = Call("set_system_signature", -1, "", 0, S, signature)
    /\ writes' = <<"SystemManager">>
    /\ ret' = Void
    /\ system_signatures_' = MapInsert(system_signatures_, S, signature)
    /\ systems_' = [s \in DOMAIN systems_ |->
                       IF s = S
                       THEN {e \in Entity : Matches(signatures_[e], system_signatures_'[S])}
                       ELSE systems_[s]]
    /\ ub' = FALSE
    /\ UNCHANGED <<available_entities_, signatures_, living_entity_count_, component_types_,
                   component_arrays_, next_component_type>>

set_system_signature(S, signature) ==
    /\ Callable
    /\ SameLive
    /\ op' = Call("set_system_signature", -1, "", 0, S, signature)
    /\ writes' = <<"SystemManager">>
    /\ ret' = Void
    /\ system_signatures_' = MapInsert(system_signatures_, S, signature)
    /\ ub' = FALSE
    /\ UNCHANGED <<available_entities_, signatures_, living_entity_count_, component_types_,
                   component_arrays_, next_component_type, systems_>>

\* Every public method of the Coordinator, with any arguments.
Next ==
    \/ Counted(MaxCalls) /\ create_entity
    \/ \E e \in Entity : Counted(MaxCalls) /\ destroy_entity(e)
    \/ \E t \in TypeNames : Counted(MaxCalls) /\ register_component(t)
    \/ \E e \in Entity, t \in TypeNames, v \in Value :
           Counted(MaxCalls) /\ add_component(e, t, v)
    \/ \E e \in Entity, t \in TypeNames : Counted(MaxCalls) /\ remove_component(e, t)
    \/ \E e \in Entity, t \in TypeNames : Counted(MaxCalls) /\ get_component(e, t)
    \/ \E t \in TypeNames : Counted(MaxCalls) /\ get_component_type(t)
    \/ \E s \in SystemNames : Counted(MaxCalls) /\ register_system(s)
    \/ \E s \in SystemNames, sig \in SignatureInputs :
           Counted(MaxCalls) /\ set_system_signature(s, sig)

Spec == Init /\ [][Next]_vars

\* The calls that write signatures and system sets (one component value).
NextSystems ==
    \/ Counted(MaxSystemsCalls) /\ create_entity
    \/ \E e \in Entity : Counted(MaxSystemsCalls) /\ destroy_entity(e)
    \/ \E t \in TypeNames : Counted(MaxSystemsCalls) /\ register_component(t)
    \/ \E e \in Entity, t \in TypeNames :
           Counted(MaxSystemsCalls) /\ add_component(e, t, 1)
    \/ \E e \in Entity, t \in TypeNames :
           Counted(MaxSystemsCalls) /\ remove_component(e, t)
    \/ \E s \in SystemNames : Counted(MaxSystemsCalls) /\ register_system(s)
    \/ \E s \in SystemNames, sig \in SignatureInputs :
           Counted(MaxSystemsCalls) /\ set_system_signature(s, sig)

SpecSystems == Init /\ [][NextSystems]_vars

\* The calls that reach the component arrays.
NextStorage ==
    \/ \E t \in TypeNames : Counted(MaxStorageCalls) /\ register_component(t)
    \/ \E e \in Entity, t \in TypeNames, v \in Value :
           Counted(MaxStorageCalls) /\ add_component(e, t, v)
    \/ \E e \in Entity, t \in TypeNames :
           Counted(MaxStorageCalls) /\ remove_component(e, t)
    \/ \E e \in Entity, t \in TypeNames :
           Counted(MaxStorageCalls) /\ get_component(e, t)

SpecStorage == Init /\ [][NextStorage]_vars

\* The calls of an entity's life: creation, components given and read, destruction.
NextLifecycle ==
    \/ Counted(MaxLifecycleCalls) /\ create_entity
    \/ \E e \in Entity : Counted(MaxLifecycleCalls) /\ destroy_entity(e)
    \/ \E t \in TypeNames : Counted(MaxLifecycleCalls) /\ register_component(t)
    \/ \E e \in Entity, t \in TypeNames, v \in Value :
           Counted(MaxLifecycleCalls) /\ add_component(e, t, v)
    \/ \E e \in Entity, t \in TypeNames :
           Counted(MaxLifecycleCalls) /\ get_component(e, t)

SpecLifecycle == Init /\ [][NextLifecycle]_vars

\* Component types by number, one more than the Signature has bits.  Types are
\* interchangeable, so SpecTypes registers them in the order of their numbers,
\* each once.
TypeIndex == 0 .. MAX_COMPONENTS

\* The calls that assign and use component type ids; ids are looked up and
\* components added for the last of the types, on one entity.
NextTypes ==
    \/ \E t \in TypeIndex :
           /\ Counted(MaxTypesCalls)
           /\ t \notin DOMAIN component_arrays_
           /\ \A u \in 0 .. (t - 1) : u \in DOMAIN component_arrays_
           /\ register_component(t)
    \/ Counted(MaxTypesCalls) /\ get_component_type(MAX_COMPONENTS)
    \/ Counted(MaxTypesCalls) /\ add_component(0, MAX_COMPONENTS, 1)

SpecTypes == Init /\ [][NextTypes]_vars

\* No entity has been created yet.
NoEntityYet == \A e \in Entity : life[e] = "fresh"

\* The ids returned by create_entity and not destroyed since.
LiveNow == {e \in Entity : life[e] = "live"}

\* The protocol of main(): component types, systems and system signatures are
\* set up before the first entity is created; afterwards entities are created
\* and components are added to, removed from, and entities destroyed among, the
\* live entities only.
NextMain ==
    \/ \E t \in TypeNames :
           Counted(MaxMainCalls) /\ NoEntityYet /\ register_component(t)
    \/ \E t \in TypeNames :
           Counted(MaxMainCalls) /\ NoEntityYet /\ get_component_type(t)
    \/ \E s \in SystemNames :
           Counted(MaxMainCalls) /\ NoEntityYet /\ register_system(s)
    \/ \E s \in SystemNames, sig \in SignatureInputs :
           Counted(MaxMainCalls) /\ NoEntityYet /\ set_system_signature(s, sig)
    \/ Counted(MaxMainCalls) /\ create_entity
    \/ \E e \in LiveNow, t \in TypeNames :
           Counted(MaxMainCalls) /\ add_component(e, t, 1)
    \/ \E e \in LiveNow, t \in TypeNames :
           Counted(MaxMainCalls) /\ remove_component(e, t)
    \/ \E e \in LiveNow : Counted(MaxMainCalls) /\ destroy_entity(e)

SpecMain == Init /\ [][NextMain]_vars

\* create_entity and destroy_entity called for ever, in any order; create_entity
\* keeps being called.
PoolCreate == create_entity /\ UNCHANGED calls

PoolDestroy(entity) ==
    /\ Len(available_entities_) < MAX_ENTITIES + MaxPoolExtra
    /\ destroy_entity(entity)
    /\ UNCHANGED calls

NextPool ==
    \/ PoolCreate
    \/ \E e \in Entity : PoolDestroy(e)

SpecPool == Init /\ [][NextPool]_vars /\ WF_vars(PoolCreate)

\* -------------------------------------------------------------- vocabulary
\* The component types that have an array.
Arrays(arrays) == {t \in DOMAIN arrays : arrays[t] # NullPtr}

\* The array of type t holds an entry for entity e (the test entity_destroyed makes).
HasEntry(arrays, t, e) == e \in DOMAIN arrays[t].entity_to_index_map_

\* The signature SystemManager uses for system s: the stored one, else empty.
SystemSignature(sigs, s) == IF s \in DOMAIN sigs THEN sigs[s] ELSE {}

\* The ids returned by create_entity and not destroyed since.
Live(l) == {e \in Entity : l[e] = "live"}

\* The number of times id e occurs in the pool of available ids.
Occurrences(q, e) == Cardinality({i \in DOMAIN q : q[i] = e})

IsCall(c, names) == c.name \in names

\* ------------------------------------------------------------------- C1
\* C1 as stated: after every add_component, remove_component or destroy_entity
\* call, for every registered system S and every entity id e, e is in S's set
\* iff (signature(e) & sig_S) == sig_S, an empty or unset sig_S included.
\* (Stated for calls on live entities that return normally.)
C1_MembershipAllEntities ==
    [][(/\ IsCall(op', {"add_component", "remove_component", "destroy_entity"})
        /\ op'.entity \in Live(life)
        /\ ret' = Void /\ ~ub') =>
           \A s \in DOMAIN systems_', e \in Entity :
               (e \in systems_'[s]) <=>
                   Matches(signatures_'[e], SystemSignature(system_signatures_', s))]_vars

\* C1 amended: after an add_component or remove_component call on e that returns
\* normally, e is in a registered system's set iff e's signature matches the
\* system's stored signature (empty if never set); after destroy_entity(e), e is
\* in no system's set.
C1_MembershipOfMutatedEntity ==
    /\ (IsCall(op, {"add_component", "remove_component"}) /\ ret = Void /\ ~ub) =>
           \A s \in DOMAIN systems_ :
               (op.entity \in systems_[s]) <=>
                   Matches(signatures_[op.entity], SystemSignature(system_signatures_, s))
    /\ IsCall(op, {"destroy_entity"}) =>
           \A s \in DOMAIN systems_ : op.entity \notin systems_[s]

\* add_component put a live entity into the set of a system whose stored
\* signature is not empty.
C1_Witness ==
    /\ IsCall(op, {"add_component"}) /\ ret = Void /\ ~ub
    /\ op.entity \in Live(life)
    /\ \E s \in DOMAIN systems_ :
           /\ SystemSignature(system_signatures_, s) # {}
           /\ op.entity \in systems_[s]

\* ------------------------------------------------------------------- C2
\* C2: for every entity e and every registered component type with id i, bit i
\* of e's signature is set iff the ComponentArray of that type holds an entry
\* for e.  (Stated for states of defined behaviour.)
C2_SignatureInvariant ==
    ~ub =>
        \A t \in Arrays(component_arrays_), e \in Entity :
            (component_types_[t] \in signatures_[e]) <=> HasEntry(component_arrays_, t, e)

\* ------------------------------------------------------------------- C3
\* C3: create_entity never returns an id that is live, and no id occurs more
\* than once in the pool of available ids (sequences with at most MAX_ENTITIES
\* live entities: the create found the pool non-empty).
C3_IdUniqueness ==
    [][/\ (IsCall(op', {"create_entity"}) /\ available_entities_ # <<>>) =>
              ret'.val \notin Live(life)
       /\ \A e \in Entity : Occurrences(available_entities_', e) <= 1]_vars

\* Entity e has a component of type t: its array holds an entry and the bit is set.
HasComponent(arrays, types, sigs, t, e) ==
    /\ t \in Arrays(arrays)
    /\ HasEntry(arrays, t, e)
    /\ types[t] \in sigs[e]

Mutations == {"add_component", "remove_component", "destroy_entity"}

\* ------------------------------------------------------------------- C4
\* C4: immediately after add_component<T>(e, v), get_component<T>(e) yields v and
\* bit T of e's signature is set; and the value get_component<T>(e) yields is not
\* changed by add/remove/destroy calls on other entities.  (Stated for calls of
\* defined behaviour.)
C4_AddGetRoundTrip ==
    [][/\ (IsCall(op', {"add_component"}) /\ ~ub' /\ ret' = Void) =>
              /\ get_data(component_arrays_'[op'.type], op'.entity) = op'.value
              /\ component_types_'[op'.type] \in signatures_'[op'.entity]
       /\ (IsCall(op', Mutations) /\ ~ub') =>
              \A t \in Arrays(component_arrays_), e \in Entity \ {op'.entity} :
                  HasComponent(component_arrays_, component_types_, signatures_, t, e) =>
                      get_data(component_arrays_'[t], e) = get_data(component_arrays_[t], e)]_vars

\* ------------------------------------------------------------------- C5
\* C5: remove_component<T>(e) on an entity e that has a T component clears bit T
\* of e's signature and e's entry in T's array; every other entity that had a T
\* component (an entry and its bit) keeps the entry with the same value; the
\* arrays of other types are unchanged.
\* (Stated for a call of defined behaviour.)
C5_SwapRemoveFrame ==
    [][(/\ IsCall(op', {"remove_component"}) /\ ~ub'
        /\ HasComponent(component_arrays_, component_types_, signatures_,
                        op'.type, op'.entity)) =>
           /\ component_types_'[op'.type] \notin signatures_'[op'.entity]
           /\ ~HasEntry(component_arrays_', op'.type, op'.entity)
           /\ \A e \in Entity \ {op'.entity} :
                  HasComponent(component_arrays_, component_types_, signatures_,
                               op'.type, e) =>
                      /\ HasEntry(component_arrays_', op'.type, e)
                      /\ get_data(component_arrays_'[op'.type], e) =
                             get_data(component_arrays_[op'.type], e)
           /\ \A t \in Arrays(component_arrays_) \ {op'.type} :
                  component_arrays_'[t] = component_arrays_[t]]_vars

\* ------------------------------------------------------------------- C6
\* C6: after destroy_entity(e) on a live e, e's signature is empty, e is in no
\* system's set, no array holds an entry for e and e is in the available pool;
\* and when a later create_entity returns e's id, that id has an empty signature,
\* no component entry and no system membership.
C6_DestroyCascade ==
    [][/\ (IsCall(op', {"destroy_entity"}) /\ ~ub' /\ op'.entity \in Live(life)) =>
              /\ signatures_'[op'.entity] = {}
              /\ \A s \in DOMAIN systems_' : op'.entity \notin systems_'[s]
              /\ \A t \in Arrays(component_arrays_') :
                     ~HasEntry(component_arrays_', t, op'.entity)
              /\ Occurrences(available_entities_', op'.entity) >= 1
       /\ (/\ IsCall(op', {"create_entity"}) /\ ~ub'
           /\ life[ret'.val] = "destroyed") =>
              /\ signatures_'[ret'.val] = {}
              /\ \A s \in DOMAIN systems_' : ret'.val \notin systems_'[s]
              /\ \A t \in Arrays(component_arrays_') :
                     ~HasEntry(component_arrays_', t, ret'.val)]_vars

\* ------------------------------------------------------------------- C7
\* C7: with MAX_ENTITIES entities live, create_entity reports the capacity error,
\* returns no id, and leaves the pool, the living count and the signatures
\* unchanged.
C7_PoolExhausted ==
    [][(/\ IsCall(op', {"create_entity"})
        /\ Live(life) = Entity
        /\ living_entity_count_ = MAX_ENTITIES) =>
           /\ ret'.kind = "error"
           /\ UNCHANGED <<available_entities_, living_entity_count_, signatures_>>]_vars

\* ------------------------------------------------------------------- C8
\* C8: destroy_entity(e) on an id that is not live fails with an error and leaves
\* the pool, the living count, the signatures, the component arrays and the
\* system sets unchanged.
C8_DoubleDestroyRejected ==
    [][(IsCall(op', {"destroy_entity"}) /\ op'.entity \notin Live(life)) =>
           /\ ret'.kind = "error"
           /\ UNCHANGED <<available_entities_, living_entity_count_, signatures_,
                          component_arrays_, systems_>>]_vars

\* ------------------------------------------------------------------- C9
\* C9: get_component<T>(e) and remove_component<T>(e) on an entity with no entry
\* in T's array report a missing-component error and leave the array, the
\* signatures and the system sets unchanged.
C9_MissingComponentRejected ==
    [][(/\ IsCall(op', {"get_component", "remove_component"})
        /\ op'.type \in Arrays(component_arrays_)
        /\ ~HasEntry(component_arrays_, op'.type, op'.entity)) =>
           /\ ret'.kind = "error"
           /\ UNCHANGED <<component_arrays_, signatures_, systems_>>]_vars

\* ------------------------------------------------------------------ C10
\* C10: add_component<T>(e, v2) on an entity that already has a T entry fails with
\* a duplicate-component error and leaves the array (value, size, index maps),
\* the signatures and the system sets unchanged.
C10_DuplicateInsertRejected ==
    [][(/\ IsCall(op', {"add_component"})
        /\ op'.type \in Arrays(component_arrays_)
        /\ HasEntry(component_arrays_, op'.type, op'.entity)) =>
           /\ ret'.kind = "error"
           /\ UNCHANGED <<component_arrays_, signatures_, systems_>>]_vars

\* ------------------------------------------------------------------ C11
\* The component types that are registered: those that were given an array.
Registered == Arrays(component_arrays_)

\* C11: register_component<T>() for a T that is not registered assigns T the id
\* k, where k types were registered before; distinct registered types have
\* distinct ids; register_component<T>() for a registered T fails with
\* AlreadyRegistered, consumes no id and keeps T's id and array.
C11_SequentialTypeIds ==
    [][IsCall(op', {"register_component"}) =>
           /\ IF op'.type \in Registered
              THEN /\ ret'.kind = "error"
                   /\ UNCHANGED <<next_component_type, component_types_, component_arrays_>>
              ELSE component_types_'[op'.type] = Cardinality(Registered)
           /\ \A t1, t2 \in Registered' :
                  t1 # t2 => component_types_'[t1] # component_types_'[t2]]_vars

\* ------------------------------------------------------------------ C13
\* C13: get_component_type<T>() for a T that is not registered fails: it returns
\* no id and does not add T to the type table; add_component, remove_component
\* and get_component for such a T fail and create no array entry for T.
C13_UnregisteredRejected ==
    [][/\ (IsCall(op', {"get_component_type"}) /\ op'.type \notin Registered) =>
              /\ ret'.kind = "error"
              /\ UNCHANGED component_types_
       /\ (/\ IsCall(op', {"add_component", "remove_component", "get_component"})
           /\ op'.type \notin Registered) =>
              /\ ret'.kind = "error"
              /\ UNCHANGED component_arrays_]_vars

\* ------------------------------------------------------------------ C14
\* Entity e is in the set the manager keeps for system s.
InSystem(systems, s, e) == s \in DOMAIN systems /\ e \in systems[s]

\* C14: set_system_signature leaves every system's entity set unchanged; an entity
\* enters or leaves a system's set only in an add_component, remove_component or
\* destroy_entity call on that entity.  (The second part for calls of defined
\* behaviour.)
C14_NotRetroactive ==
    [][/\ IsCall(op', {"set_system_signature"}) => systems_' = systems_
       /\ ~ub' =>
              \A s \in DOMAIN systems_', e \in Entity :
                  (InSystem(systems_, s, e) # InSystem(systems_', s, e)) =>
                      (IsCall(op', Mutations) /\ op'.entity = e)]_vars

\* set_system_signature stored a non-empty signature for a registered system
\* while a live entity with a matching signature exists; the entity is not in
\* the system's set.
C14_Witness ==
    /\ IsCall(op, {"set_system_signature"})
    /\ op.system \in DOMAIN systems_
    /\ op.signature # {}
    /\ system_signatures_[op.system] = op.signature
    /\ \E e \in Live(life) :
           /\ Matches(signatures_[e], op.signature)
           /\ e \notin systems_[op.system]

\* ------------------------------------------------------------------ C15
\* C15: register_system<S>() for a registered S reports AlreadyRegistered; every
\* handle register_system returns is to the instance the manager tracks.
C15_DuplicateSystemRejected ==
    [][IsCall(op', {"register_system"}) =>
           /\ op'.system \in DOMAIN systems_ => ret'.kind = "error"
           /\ ret'.kind = "handle" => ret'.val = 1]_vars

\* ------------------------------------------------------------------ C16
\* C16: in every ComponentArray the domain of index_to_entity_map_ is
\* 0 .. size_-1, the two maps are mutual inverses, size_ is the number of
\* entities with an entry and is at most MAX_ENTITIES.  (States of defined
\* behaviour, after any calls that reach the array.)
C16_DensityInvariant ==
    ~ub =>
        \A t \in Registered :
            LET a == component_arrays_[t]
                e2i == a.entity_to_index_map_
                i2e == a.index_to_entity_map_
            IN  /\ DOMAIN i2e = 0 .. (a.size_ - 1)
                /\ \A e \in DOMAIN e2i : e2i[e] \in DOMAIN i2e /\ i2e[e2i[e]] = e
                /\ \A i \in DOMAIN i2e : i2e[i] \in DOMAIN e2i /\ e2i[i2e[i]] = i
                /\ a.size_ = Cardinality(DOMAIN e2i)
                /\ a.size_ <= MAX_ENTITIES

\* ------------------------------------------------------------------ C18
\* C18: destroy_entity(e) on a live e leaves the array of every type of which e
\* holds no component unchanged (an earlier get_component for e included), and
\* has the effect of remove_data(e) on the array of every type e holds.
C18_DestroyedNoOpWhenAbsent ==
    [][(IsCall(op', {"destroy_entity"}) /\ op'.entity \in Live(life) /\ ~ub') =>
           \A t \in Registered :
               IF component_types_[t] \in signatures_[op'.entity]
               THEN component_arrays_'[t] = remove_data(component_arrays_[t], op'.entity, 0)
               ELSE component_arrays_'[t] = component_arrays_[t]]_vars

\* ------------------------------------------------------------------ C17
\* C17: add_component, remove_component and destroy_entity each write component
\* storage first, then the entity's signature, then system membership, or, on
\* failure, none of the three.  (Calls of defined behaviour on live entities.)
C17_UpdateOrder ==
    [][(IsCall(op', Mutations) /\ op'.entity \in Live(life) /\ ~ub') =>
           \/ ret' = Void /\ writes' = <<"ComponentManager", "EntityManager", "SystemManager">>
           \/ ret' # Void /\ writes' = <<>>]_vars

\* ------------------------------------------------------------------ C12
\* C12: register_component of a new type fails with a capacity error once
\* MAX_COMPONENTS types are registered; the id of every registered type is below
\* MAX_COMPONENTS; no add_component call updates component storage and then
\* fails.
C12_TypeCapacity ==
    [][/\ (/\ IsCall(op', {"register_component"})
           /\ op'.type \notin Registered
           /\ Cardinality(Registered) >= MAX_COMPONENTS) =>
              /\ ret'.kind = "error"
              /\ UNCHANGED <<next_component_type, component_types_, component_arrays_>>
       /\ \A t \in Registered' : component_types_'[t] < MAX_COMPONENTS
       /\ (IsCall(op', {"add_component"}) /\ ret' # Void /\ ~ub') =>
              UNCHANGED component_arrays_]_vars

\* ------------------------------------------------------------------ C19
\* C19: when the system signatures are set before any entity is created and all
\* mutations are on live entities, every entity in a system's set has an entry
\* in the array of every component type whose bit the system's signature has,
\* so the system's update reads no component the entity lacks.  (States of
\* defined behaviour.)
C19_UpdateSafety ==
    ~ub =>
        \A s \in DOMAIN systems_ :
            \A e \in systems_[s], t \in Registered :
                component_types_[t] \in SystemSignature(system_signatures_, s) =>
                    HasEntry(component_arrays_, t, e)

\* ------------------------------------------------------------------ C20
\* The ids create_entity has returned so far.
EverCreated == {e \in Entity : life[e] # "fresh"}

\* C20: the first MAX_ENTITIES creations return 0, 1, ..., MAX_ENTITIES-1 in that
\* order; create_entity returns the id that has been available longest and
\* destroy_entity puts the released id behind every id already available; an
\* available id is eventually returned when create_entity keeps being called.
C20_FifoRecycling ==
    /\ [][/\ (IsCall(op', {"create_entity"}) /\ ~ub') =>
                 /\ (Cardinality(EverCreated) < MAX_ENTITIES =>
                        ret'.val = Cardinality(EverCreated))
                 /\ ret'.val = available_entities_[1]
                 /\ \A i \in 1 .. Len(available_entities_') :
                        available_entities_'[i] = available_entities_[i + 1]
          /\ IsCall(op', {"destroy_entity"}) =>
                 /\ available_entities_'[Len(available_entities_')] = op'.entity
                 /\ \A i \in 1 .. Len(available_entities_) :
                        available_entities_'[i] = available_entities_[i]]_vars
    /\ \A e \in Entity :
           (Occurrences(available_entities_, e) >= 1) ~>
               (IsCall(op, {"create_entity"}) /\ ~ub /\ ret.val = e)

\* create_entity drained the pool and the id it returned is not the last of the
\* initial ids: it was released by destroy_entity and is handed out again.
C20_Witness ==
    /\ IsCall(op, {"create_entity"}) /\ ~ub
    /\ available_entities_ = <<>>
    /\ ret.val # MAX_ENTITIES - 1

====
